---- MODULE Spec2Model ----
(***************************************************************************)
(* ASI-GO: the cognition base (cognition_base.py), the researcher          *)
(* (researcher.py) and the analyst (analyst.py) as one state machine.      *)
(*                                                                         *)
(* Python dicts are records whose DOMAIN is the set of keys present, so    *)
(* d.get(k, default) and a KeyError on d[k] are both expressible.          *)
(* Text that the code searches character by character (goals, problem      *)
(* descriptions, applicable_to tags) is a sequence of one-character        *)
(* strings.  Text that the code only stores, slices or embeds (generator   *)
(* responses, errors) is a record [src, len]: the first len characters of  *)
(* the character stream src.                                               *)
(***************************************************************************)
EXTENDS Integers, Sequences, FiniteSets, TLC

VARIABLES
    file,              \* the durable knowledge file cognition_knowledge.json
    knowledge,         \* CognitionBase.knowledge
    session_insights,  \* CognitionBase.session_insights
    proposal_history,  \* Researcher.proposal_history
    analyses,          \* Analyst.analyses
    last,              \* the last call: its name, arguments, outcome, result
    calls              \* how often each call ran in this process

vars == <<file, knowledge, session_insights, proposal_history, analyses, last, calls>>

-----------------------------------------------------------------------------
(* Python dict and str primitives                                          *)

\* d.get(k, default)
Get(d, k, default) == IF k \in DOMAIN d THEN d[k] ELSE default

\* d[k] = v on a dict: adds the key or overwrites it
Put(d, k, v) == [x \in DOMAIN d \cup {k} |-> IF x = k THEN v ELSE d[x]]

UpperCase == <<"A","B","C","D","E","F","G","H","I","J","K","L","M",
               "N","O","P","Q","R","S","T","U","V","W","X","Y","Z">>
LowerCase == <<"a","b","c","d","e","f","g","h","i","j","k","l","m",
               "n","o","p","q","r","s","t","u","v","w","x","y","z">>

\* the lower-case letter of each upper-case letter
LowerOf ==
    [c \in {UpperCase[i] : i \in DOMAIN UpperCase} |->
        LowerCase[CHOOSE i \in DOMAIN UpperCase : UpperCase[i] = c]]

\* str.lower() on one character
LowerChar(c) == IF c \in DOMAIN LowerOf THEN LowerOf[c] ELSE c

\* str.lower()
Lower(s) == [i \in 1..Len(s) |-> LowerChar(s[i])]

\* the characters str.split() splits on
Whitespace == {" ", "\t", "\n"}

\* str.split() with no separator: the maximal runs of non-whitespace, left to
\* right; cur is the run being read, acc the runs already closed
RECURSIVE SplitFrom(_, _, _, _)
SplitFrom(s, i, cur, acc) ==
    IF i > Len(s)
    THEN IF cur = <<>> THEN acc ELSE Append(acc, cur)
    ELSE IF s[i] \in Whitespace
         THEN SplitFrom(s, i + 1, <<>>, IF cur = <<>> THEN acc ELSE Append(acc, cur))
         ELSE SplitFrom(s, i + 1, Append(cur, s[i]), acc)

Split(s) == SplitFrom(s, 1, <<>>, <<>>)

\* == written for in
WholeString(needle, hay) == needle = hay

\* needle in hay, on str
SubstringOf(needle, hay) ==
    \E k \in 0..(Len(hay) - Len(needle)) :
        \A i \in 1..Len(needle) : hay[k + i] = needle[i]

\* text[:n] on stored text
Prefix(text, n) == [src |-> text.src, len |-> IF text.len < n THEN text.len ELSE n]

-----------------------------------------------------------------------------
(* The seed catalogue, cognition_base.py lines 30-75                       *)

TagOptimization == <<"o","p","t","i","m","i","z","a","t","i","o","n">>
TagSearch == <<"s","e","a","r","c","h">>
TagMathematicalProblems ==
    <<"m","a","t","h","e","m","a","t","i","c","a","l"," ","p","r","o","b","l","e","m","s">>
TagAlgorithms == <<"a","l","g","o","r","i","t","h","m","s">>
TagNumericalMethods ==
    <<"n","u","m","e","r","i","c","a","l"," ","m","e","t","h","o","d","s">>
TagApproximations == <<"a","p","p","r","o","x","i","m","a","t","i","o","n","s">>
TagSequences == <<"s","e","q","u","e","n","c","e","s">>
TagMathematicalSeries ==
    <<"m","a","t","h","e","m","a","t","i","c","a","l"," ","s","e","r","i","e","s">>
TagDataAnalysis == <<"d","a","t","a"," ","a","n","a","l","y","s","i","s">>

DivideAndConquer ==
    [name |-> "Divide and Conquer",
     description |-> "Break complex problems into smaller subproblems",
     applicable_to |-> <<TagOptimization, TagSearch, TagMathematicalProblems>>,
     example |-> "Finding prime numbers by checking divisibility up to sqrt(n)"]

IterativeRefinement ==
    [name |-> "Iterative Refinement",
     description |-> "Start with a basic solution and improve it iteratively",
     applicable_to |-> <<TagAlgorithms, TagNumericalMethods, TagApproximations>>,
     example |-> "Newton's method for finding roots"]

PatternRecognition ==
    [name |-> "Pattern Recognition",
     description |-> "Identify patterns in the problem to simplify the solution",
     applicable_to |-> <<TagSequences, TagMathematicalSeries, TagDataAnalysis>>,
     example |-> "Recognizing Fibonacci patterns in problems"]

SeedCatalogue ==
    [strategies |-> <<DivideAndConquer, IterativeRefinement, PatternRecognition>>,
     common_errors |->
        <<[type |-> "Off-by-one errors",
           description |-> "Errors in loop boundaries or array indices",
           prevention |-> "Carefully check loop conditions and test edge cases"],
          [type |-> "Integer overflow",
           description |-> "Results exceeding data type limits",
           prevention |-> "Use appropriate data types and check for overflow conditions"]>>,
     optimization_techniques |->
        <<[name |-> "Memoization",
           description |-> "Cache results of expensive function calls",
           use_case |-> "Recursive algorithms with overlapping subproblems"],
          [name |-> "Early termination",
           description |-> "Stop computation when result is found or impossible",
           use_case |-> "Search algorithms and validation checks"]>>]

-----------------------------------------------------------------------------
(* CognitionBase                                                           *)

\* The durable file is absent, present but unreadable or not JSON ("corrupt"),
\* or holds the JSON document of a catalogue ("ok").
AbsentFile == [state |-> "absent"]
CorruptFile == [state |-> "corrupt"]
\* json.dump(knowledge, f): dicts, lists, strings, numbers and booleans are
\* written as the JSON document that json.load reads back as the same value
JsonDocument(catalogue) == [state |-> "ok", content |-> catalogue]

\* _load_knowledge without the try around json.load: a file that does not
\* parse yields no seed catalogue
LoadKnowledgeUncaught(f) ==
    IF f.state = "ok" THEN f.content
    ELSE IF f.state = "corrupt" THEN <<>> ELSE SeedCatalogue

\* _load_knowledge: the file's content when it exists and parses, the seed
\* catalogue otherwise
LoadKnowledge(f) ==
    IF f.state # "absent"
    THEN IF f.state = "ok" THEN f.content ELSE SeedCatalogue
    ELSE SeedCatalogue

\* any(keyword in applicable.lower() for keyword in keywords)
AnyKeywordIn(keywords, applicable) ==
    LET lowered == Lower(applicable)
    IN  \E n \in DOMAIN keywords : SubstringOf(keywords[n], lowered)

\* the inner loop without its break: the strategy is appended once per
\* matching tag
RECURSIVE ApplicableLoopNoBreak(_, _, _, _, _)
ApplicableLoopNoBreak(strategy, tags, j, keywords, relevant) ==
    IF j > Len(tags) THEN relevant
    ELSE ApplicableLoopNoBreak(strategy, tags, j + 1, keywords,
            IF AnyKeywordIn(keywords, tags[j])
            THEN Append(relevant, strategy) ELSE relevant)

\* the inner loop of get_relevant_strategies, from tag j on: the strategy is
\* appended at the first tag that contains some keyword, and the loop breaks
RECURSIVE ApplicableLoop(_, _, _, _, _)
ApplicableLoop(strategy, tags, j, keywords, relevant) ==
    IF j > Len(tags) THEN relevant
    ELSE IF AnyKeywordIn(keywords, tags[j])
         THEN Append(relevant, strategy)
         ELSE ApplicableLoop(strategy, tags, j + 1, keywords, relevant)

\* the outer loop of get_relevant_strategies, from strategy i on
RECURSIVE StrategyLoop(_, _, _, _)
StrategyLoop(strategies, i, keywords, relevant) ==
    IF i > Len(strategies) THEN relevant
    ELSE StrategyLoop(strategies, i + 1, keywords,
            ApplicableLoop(strategies[i], Get(strategies[i], "applicable_to", <<>>),
                           1, keywords, relevant))

get_relevant_strategies(catalogue, problem_description) ==
    StrategyLoop(Get(catalogue, "strategies", <<>>), 1,
                 Split(Lower(problem_description)), <<>>)

\* insight.get("significance", 0) > 0.7, significance counted in tenths
SignificanceThreshold == 7

\* the gate written with >= for >
PromotedFromThreshold(insight) == Get(insight, "significance", 0) >= SignificanceThreshold

Promoted(insight) == Get(insight, "significance", 0) > SignificanceThreshold

\* what one save_knowledge call can do to the file: write the whole document;
\* fail in open(), before the file is touched; or fail in json.dump, after
\* open(..., 'w') has truncated the file, leaving a partial document behind
SaveOutcomes == {"written", "open_failed", "dump_failed"}

\* save_knowledge writing the learned patterns alone
SaveLearnedPatterns(f, catalogue, outcome) ==
    CASE outcome = "written" ->
            JsonDocument([learned_patterns |-> Get(catalogue, "learned_patterns", <<>>)])
      [] outcome = "open_failed" -> f
      [] outcome = "dump_failed" -> CorruptFile

\* save_knowledge: the file after the call; every failure is caught and logged
SaveKnowledge(f, catalogue, outcome) ==
    CASE outcome = "written" -> JsonDocument(catalogue)
      [] outcome = "open_failed" -> f
      [] outcome = "dump_failed" -> CorruptFile

\* promotion into the category retrieval reads
PromotionIntoStrategies == "strategies"

\* the key add_insight promotes into
PromotionCategory == "learned_patterns"

\* the catalogue after add_insight's promotion branch
Promote(catalogue, insight) ==
    LET present == IF PromotionCategory \in DOMAIN catalogue
                   THEN catalogue
                   ELSE Put(catalogue, PromotionCategory, <<>>)
    IN  Put(present, PromotionCategory, Append(present[PromotionCategory], insight))

\* insight["timestamp"] = datetime.now().isoformat()
Stamp(insight, now) == Put(insight, "timestamp", now)

\* add_insight with the append to the session log moved under the gate
AddInsightEffectGated(insight, now, outcome, counted) ==
    LET stamped == Stamp(insight, now)
    IN  IF Promoted(stamped)
        THEN /\ session_insights' = Append(session_insights, stamped)
             /\ knowledge' = Promote(knowledge, stamped)
             /\ file' = SaveKnowledge(file, knowledge', outcome)
             /\ calls' = [counted EXCEPT
                           !.save = @ + 1,
                           !.save_failed = IF outcome = "written" THEN @ ELSE @ + 1]
        ELSE /\ calls' = counted
             /\ UNCHANGED <<session_insights, knowledge, file>>

\* the catalogue, the session log and the file after add_insight(insight) at
\* time now, the save (if any) ending as outcome; counted is the call count
\* before the save is counted
AddInsightEffect(insight, now, outcome, counted) ==
    LET stamped == Stamp(insight, now)
    IN  /\ session_insights' = Append(session_insights, stamped)
        /\ IF Promoted(stamped)
           THEN /\ knowledge' = Promote(knowledge, stamped)
                /\ file' = SaveKnowledge(file, knowledge', outcome)
                /\ calls' = [counted EXCEPT
                           !.save = @ + 1,
                           !.save_failed = IF outcome = "written" THEN @ ELSE @ + 1]
           ELSE /\ calls' = counted
                /\ UNCHANGED <<knowledge, file>>

\* CognitionBase.add_insight called by the driver
AddInsight(insight, now, outcome) ==
    /\ AddInsightEffect(insight, now, outcome, calls)
    /\ last' = [op |-> "add_insight", args |-> [insight |-> insight],
                outcome |-> "returned"]
    /\ UNCHANGED <<proposal_history, analyses>>

\* CognitionBase.get_relevant_strategies called by the driver
Retrieve(problem_description) ==
    /\ last' = [op |-> "retrieve",
                args |-> [problem_description |-> problem_description],
                outcome |-> "returned",
                ret |-> get_relevant_strategies(knowledge, problem_description)]
    /\ calls' = [calls EXCEPT !.retrieve = @ + 1]
    /\ UNCHANGED <<file, knowledge, session_insights, proposal_history, analyses>>

\* set(...) of get_session_summary raises TypeError on a list: a strategy
\* reference that is a non-empty list passes the filter and cannot be hashed
TypeError == [src |-> <<"TypeError", "unhashable type: 'list'">>, len |-> 23]

\* CognitionBase.get_session_summary called by the driver
SessionSummary ==
    /\ last' =
         IF \E n \in DOMAIN session_insights :
                Get(session_insights[n], "strategy", <<>>) # <<>>
         THEN [op |-> "session_summary", outcome |-> "raised", error |-> TypeError]
         ELSE [op |-> "session_summary", outcome |-> "returned",
               ret |-> [total_insights |-> Len(session_insights),
                        insights |-> session_insights,
                        strategies_used |-> <<>>]]
    /\ UNCHANGED <<file, knowledge, session_insights, proposal_history, analyses, calls>>

\* what get_session_summary does over the session log: the set(...) over the
\* strategy references that pass the filter raises TypeError as soon as one of
\* them is a list; otherwise no reference passed and the list is empty
get_session_summary(log) ==
    IF \E n \in DOMAIN log : Get(log[n], "strategy", <<>>) # <<>>
    THEN [outcome |-> "raised", error |-> TypeError]
    ELSE [outcome |-> "returned",
          ret |-> [total_insights |-> Len(log),
                   insights |-> log,
                   strategies_used |-> <<>>]]

\* analyze: analyze_results calls; query: llm.query calls; reply: llm.query
\* calls of analyze_results that returned; save: save_knowledge calls;
\* retrieve: get_relevant_strategies calls by the driver; save_failed:
\* save_knowledge calls that caught an exception
NoCalls == [analyze |-> 0, query |-> 0, reply |-> 0, save |-> 0, retrieve |-> 0,
            save_failed |-> 0]

\* a process start: CognitionBase(), Researcher(llm, cb), Analyst(llm, cb)
Construct(f) ==
    /\ knowledge = LoadKnowledge(f)
    /\ session_insights = <<>>
    /\ proposal_history = <<>>
    /\ analyses = <<>>
    /\ calls = NoCalls
    /\ last = [op |-> "load", outcome |-> "returned"]

\* the process ends and a new one starts on the same file
Restart ==
    /\ knowledge' = LoadKnowledge(file)
    /\ session_insights' = <<>>
    /\ proposal_history' = <<>>
    /\ analyses' = <<>>
    /\ calls' = NoCalls
    /\ last' = [op |-> "load", outcome |-> "returned"]
    /\ UNCHANGED file

-----------------------------------------------------------------------------
(* The generator, llm.query(prompt, system_prompt): it returns a text or   *)
(* raises                                                                  *)

Returns(text) == [ok |-> TRUE, text |-> text]
Raises(error) == [ok |-> FALSE, error |-> error]

\* the exception d[k] raises when k is not a key of d
KeyError(k) == [src |-> <<"KeyError", k>>, len |-> Len(k) + 2]

-----------------------------------------------------------------------------
(* Researcher                                                              *)

\* [s['name'] for s in strategies]
RECURSIVE NamesOf(_)
NamesOf(strategies) ==
    IF strategies = <<>> THEN <<>>
    ELSE <<Head(strategies).name>> \o NamesOf(Tail(strategies))

\* the prompt of propose_solution, as the values it embeds
ProposePrompt(goal, strategies, previous_attempt) ==
    [goal |-> goal,
     strategies |-> [i \in 1..Len(strategies) |->
                        <<strategies[i].name, strategies[i].description>>],
     previous |-> IF previous_attempt = <<>> THEN <<>>
                  ELSE <<Get(previous_attempt, "error", "Unknown error")>>]

\* a call that raised before it asked the generator anything
RaisedUnasked(op, args, error) ==
    [op |-> op, args |-> args, outcome |-> "raised", error |-> error]

\* except Exception as e: log, then raise a new error in place of e
WrappedError(op, args, prompt, gen, error) ==
    [op |-> op, args |-> args, query |-> prompt, reply |-> gen,
     outcome |-> "raised", error |-> [src |-> <<"wrapped">> \o error.src, len |-> error.len]]

\* except Exception as e: logger.error(...); raise -- the call ends in e
Reraised(op, args, prompt, gen, error) ==
    [op |-> op, args |-> args, query |-> prompt, reply |-> gen,
     outcome |-> "raised", error |-> error]

\* a call that returned ret after the generator replied as gen
Returned(op, args, prompt, gen, ret) ==
    [op |-> op, args |-> args, query |-> prompt, reply |-> gen,
     outcome |-> "returned", ret |-> ret]

\* the proposal numbered by the generator queries made so far, failed ones
\* included
NewProposalByAttempts(goal, response, strategies) ==
    [goal |-> goal,
     solution |-> response,
     strategies_used |-> NamesOf(strategies),
     iteration |-> calls.query + 1]

\* the proposal propose_solution builds
NewProposal(goal, response, strategies) ==
    [goal |-> goal,
     solution |-> response,
     strategies_used |-> NamesOf(strategies),
     iteration |-> Len(proposal_history) + 1]

\* propose_solution asking the generator a second time when it fails
ProposeRetrying(goal, previous_attempt, gen) ==
    LET strategies == get_relevant_strategies(knowledge, goal)
        args == [goal |-> goal, previous_attempt |-> previous_attempt]
        prompt == ProposePrompt(goal, strategies, previous_attempt)
        proposal == NewProposal(goal, gen.text, strategies)
    IN  /\ calls' = [calls EXCEPT !.query = IF gen.ok THEN @ + 1 ELSE @ + 2]
        /\ IF gen.ok
           THEN /\ proposal_history' = Append(proposal_history, proposal)
                /\ last' = Returned("propose", args, prompt, gen, proposal)
           ELSE /\ UNCHANGED proposal_history
                /\ last' = Reraised("propose", args, prompt, gen, gen.error)
        /\ UNCHANGED <<file, knowledge, session_insights, analyses>>

\* propose_solution(goal, previous_attempt); previous_attempt is None (<<>>, as
\* falsy as None) or a dict; gen is what the generator does when asked
Propose(goal, previous_attempt, gen) ==
    LET strategies == get_relevant_strategies(knowledge, goal)
        args == [goal |-> goal, previous_attempt |-> previous_attempt]
        missing == {k \in {"name", "description"} :
                        \E i \in DOMAIN strategies : k \notin DOMAIN strategies[i]}
    IN
    IF missing # {}
    THEN \* strategy['name'] fails while the prompt is built, outside the try
         /\ last' = RaisedUnasked("propose", args, KeyError(CHOOSE k \in missing : TRUE))
         /\ UNCHANGED <<file, knowledge, session_insights, proposal_history,
                        analyses, calls>>
    ELSE
    LET prompt == ProposePrompt(goal, strategies, previous_attempt)
        proposal == NewProposal(goal, gen.text, strategies)
    IN  /\ calls' = [calls EXCEPT !.query = @ + 1]
        /\ IF gen.ok
           THEN /\ proposal_history' = Append(proposal_history, proposal)
                /\ last' = Returned("propose", args, prompt, gen, proposal)
           ELSE /\ UNCHANGED proposal_history
                /\ last' = Reraised("propose", args, prompt, gen, gen.error)
        /\ UNCHANGED <<file, knowledge, session_insights, analyses>>

\* the prompt of refine_proposal, as the values it embeds
RefinePrompt(proposal, feedback) ==
    [goal |-> proposal.goal,
     solution |-> proposal.solution,
     success |-> Get(feedback, "success", FALSE),
     error |-> Get(feedback, "error", "None"),
     output |-> Get(feedback, "output", "None"),
     issues |-> Get(feedback, "issues", <<>>)]

\* the refined proposal numbered, like a new proposal, by the history length
RefinedProposalByHistory(proposal, response) ==
    [goal |-> proposal.goal,
     solution |-> response,
     strategies_used |-> Get(proposal, "strategies_used", <<>>),
     iteration |-> Len(proposal_history) + 1,
     refined_from |-> proposal.iteration]

\* the refined proposal keeping the iteration of the proposal it refines
RefinedProposalSameIteration(proposal, response) ==
    [goal |-> proposal.goal,
     solution |-> response,
     strategies_used |-> Get(proposal, "strategies_used", <<>>),
     iteration |-> proposal.iteration,
     refined_from |-> proposal.iteration]

\* the refined proposal with the strategies retrieved anew for its goal
RefinedProposalRetrieving(proposal, response) ==
    [goal |-> proposal.goal,
     solution |-> response,
     strategies_used |-> NamesOf(get_relevant_strategies(knowledge, proposal.goal)),
     iteration |-> proposal.iteration + 1,
     refined_from |-> proposal.iteration]

\* the proposal refine_proposal builds
RefinedProposal(proposal, response) ==
    [goal |-> proposal.goal,
     solution |-> response,
     strategies_used |-> Get(proposal, "strategies_used", <<>>),
     iteration |-> proposal.iteration + 1,
     refined_from |-> proposal.iteration]

\* refine_proposal(proposal, feedback)
Refine(proposal, feedback, gen) ==
    LET args == [proposal |-> proposal, feedback |-> feedback]
        missing == {"goal", "solution"} \ DOMAIN proposal
    IN
    IF missing # {}
    THEN \* proposal['goal'] fails while the prompt is built, outside the try
         /\ last' = RaisedUnasked("refine", args, KeyError(CHOOSE k \in missing : TRUE))
         /\ UNCHANGED <<file, knowledge, session_insights, proposal_history,
                        analyses, calls>>
    ELSE
    LET prompt == RefinePrompt(proposal, feedback)
        refined_proposal == RefinedProposal(proposal, gen.text)
    IN  /\ calls' = [calls EXCEPT !.query = @ + 1]
        /\ IF ~gen.ok
           THEN /\ UNCHANGED proposal_history
                /\ last' = Reraised("refine", args, prompt, gen, gen.error)
           ELSE IF "iteration" \notin DOMAIN proposal
           THEN \* proposal['iteration'] fails inside the try: logged, raised again
                /\ UNCHANGED proposal_history
                /\ last' = Reraised("refine", args, prompt, gen, KeyError("iteration"))
           ELSE /\ proposal_history' = Append(proposal_history, refined_proposal)
                /\ last' = Returned("refine", args, prompt, gen, refined_proposal)
        /\ UNCHANGED <<file, knowledge, session_insights, analyses>>

-----------------------------------------------------------------------------
(* Analyst                                                                 *)

\* the length of the output preview, analyst.py line 27
PreviewLength == 500
\* the length of key_learning, analyst.py line 95
KeyLearningLength == 200

NoneMarker == [src |-> <<"None">>, len |-> 4]
Ellipsis == [src |-> <<"...">>, len |-> 3]

\* output_preview that cuts from 500 characters on
OutputPreviewFrom(test_result) ==
    IF "output" \in DOMAIN test_result /\ test_result.output.len > 0
    THEN IF test_result.output.len >= PreviewLength
         THEN <<Prefix(test_result.output, PreviewLength), Ellipsis>>
         ELSE <<test_result.output>>
    ELSE <<NoneMarker>>

\* output_preview, as the pieces it is concatenated from
OutputPreview(test_result) ==
    IF "output" \in DOMAIN test_result /\ test_result.output.len > 0
    THEN IF test_result.output.len > PreviewLength
         THEN <<Prefix(test_result.output, PreviewLength), Ellipsis>>
         ELSE <<test_result.output>>
    ELSE <<NoneMarker>>

\* the prompt of analyze_results, as the values it embeds
AnalyzePrompt(proposal, test_result, validation) ==
    [goal |-> proposal.goal,
     iteration |-> Get(proposal, "iteration", 1),
     strategies_used |-> Get(proposal, "strategies_used", <<>>),
     success |-> test_result.success,
     output |-> OutputPreview(test_result),
     error |-> Get(test_result, "error", "None"),
     issues |-> Get(test_result, "issues", <<>>),
     meets_goal |-> Get(validation, "meets_goal", FALSE),
     confidence |-> Get(validation, "confidence", 0),
     notes |-> Get(validation, "notes", <<>>)]

\* f"Analysis failed: {str(e)}. Test result: {'Success' if ... else 'Failed'}"
FailureText(error, success) ==
    [src |-> <<"Analysis failed: ">> \o error.src \o <<". Test result: ">>
             \o <<IF success THEN "Success" ELSE "Failed">>,
     len |-> 17 + error.len + 15 + (IF success THEN 7 ELSE 6)]

\* the analysis built in the try branch
FullAnalysis(proposal, test_result, validation, response) ==
    [iteration |-> Get(proposal, "iteration", 1),
     success |-> test_result.success,
     analysis |-> response,
     test_result |-> test_result,
     validation |-> validation]

\* a basic analysis that reports every degraded attempt as failed
BasicAnalysisAsFailure(proposal, test_result, validation, error) ==
    [iteration |-> Get(proposal, "iteration", 1),
     success |-> FALSE,
     analysis |-> FailureText(error, test_result.success),
     test_result |-> test_result,
     validation |-> validation]

\* the basic analysis built in the except branch
BasicAnalysis(proposal, test_result, validation, error) ==
    [iteration |-> Get(proposal, "iteration", 1),
     success |-> test_result.success,
     analysis |-> FailureText(error, test_result.success),
     test_result |-> test_result,
     validation |-> validation]

NoAnalysisAvailable == [src |-> <<"No analysis available">>, len |-> 21]

\* the significance _extract_insights gives, in tenths: 0.5 and 0.3
SuccessSignificance == 5
FailureSignificance == 3

\* the insight of a success given a significance of 0.9
ExtractedInsightOfNote(analysis, proposal) ==
    [goal |-> proposal.goal,
     strategy |-> Get(proposal, "strategies_used", <<>>),
     success |-> analysis.success,
     key_learning |-> IF analysis.analysis.len > 0
                      THEN Prefix(analysis.analysis, KeyLearningLength)
                      ELSE NoAnalysisAvailable,
     significance |-> IF analysis.success THEN 9 ELSE FailureSignificance]

\* the insight _extract_insights builds
ExtractedInsight(analysis, proposal) ==
    [goal |-> proposal.goal,
     strategy |-> Get(proposal, "strategies_used", <<>>),
     success |-> analysis.success,
     key_learning |-> IF analysis.analysis.len > 0
                      THEN Prefix(analysis.analysis, KeyLearningLength)
                      ELSE NoAnalysisAvailable,
     significance |-> IF analysis.success THEN SuccessSignificance
                      ELSE FailureSignificance]

\* analyze_results(proposal, test_result, validation); now is the clock read
\* by add_insight and outcome the fate of its save, should it save
Analyze(proposal, test_result, validation, gen, now, outcome) ==
    LET args == [proposal |-> proposal, test_result |-> test_result,
                 validation |-> validation]
        missing == IF "goal" \notin DOMAIN proposal THEN {"goal"}
                   ELSE {"success"} \ DOMAIN test_result
    IN
    IF missing # {}
    THEN \* proposal['goal'] or test_result['success'] fails while the prompt
         \* is built, outside the try
         /\ calls' = [calls EXCEPT !.analyze = @ + 1]
         /\ last' = RaisedUnasked("analyze", args, KeyError(CHOOSE k \in missing : TRUE))
         /\ UNCHANGED <<file, knowledge, session_insights, proposal_history, analyses>>
    ELSE
    LET prompt == AnalyzePrompt(proposal, test_result, validation)
        analysis == IF gen.ok
                    THEN FullAnalysis(proposal, test_result, validation, gen.text)
                    ELSE BasicAnalysis(proposal, test_result, validation, gen.error)
    IN  /\ analyses' = Append(analyses, analysis)
        /\ last' = Returned("analyze", args, prompt, gen, analysis)
        /\ IF gen.ok
           THEN \* _extract_insights, then add_insight
                AddInsightEffect(ExtractedInsight(analysis, proposal), now, outcome,
                                 [calls EXCEPT !.analyze = @ + 1, !.query = @ + 1,
                                               !.reply = @ + 1])
           ELSE \* the except branch: no insight is extracted
                /\ calls' = [calls EXCEPT !.analyze = @ + 1, !.query = @ + 1]
                /\ UNCHANGED <<file, knowledge, session_insights>>
        /\ UNCHANGED proposal_history

GoalAchieved == "Goal achieved! Consider optimizing the solution or trying a more complex goal."
RefineLogic == "Solution runs but doesn't fully meet the goal. Refine the logic."
Reconsider == "Multiple attempts failed. Consider revising the goal or approach fundamentally."
RefineFromError == "Refine the current approach based on the error feedback."
NoData == "No data available. Start with a new proposal."

\* the number of analyses from which a failure is answered with Reconsider,
\* analyst.py line 153
ReconsiderAfter == 5

\* the decision with > written for >=
recommend_beyond(history) ==
    IF history = <<>> THEN NoData
    ELSE LET last_analysis == history[Len(history)]
         IN  IF last_analysis.success /\ Get(last_analysis.validation, "meets_goal", FALSE)
             THEN GoalAchieved
             ELSE IF last_analysis.success THEN RefineLogic
             ELSE IF Len(history) > ReconsiderAfter THEN Reconsider
             ELSE RefineFromError

\* recommend_next_action over self.analyses
recommend_next_action(history) ==
    IF history = <<>> THEN NoData
    ELSE LET last_analysis == history[Len(history)]
         IN  IF last_analysis.success /\ Get(last_analysis.validation, "meets_goal", FALSE)
             THEN GoalAchieved
             ELSE IF last_analysis.success THEN RefineLogic
             ELSE IF Len(history) >= ReconsiderAfter THEN Reconsider
             ELSE RefineFromError

NoAnalysesYet == "No analyses performed yet."

\* the length an error message is cut to in the report, analyst.py line 126
ErrorPreviewLength == 50

\* one line of the Iterations section of the report, as the values it embeds;
\* error holds the pieces of the error message, none when it is not shown
IterationLine(analysis) ==
    [iteration |-> analysis.iteration,
     success |-> analysis.success,
     error |-> IF /\ ~analysis.success
                  /\ "error" \in DOMAIN analysis.test_result
                  /\ analysis.test_result.error.len > 0
               THEN IF analysis.test_result.error.len > ErrorPreviewLength
                    THEN <<Prefix(analysis.test_result.error, ErrorPreviewLength),
                           Ellipsis>>
                    ELSE <<analysis.test_result.error>>
               ELSE <<>>]

\* the lines the report gains from the session summary: none when
\* get_session_summary raises (the exception is caught and logged) or when
\* the log is empty
SessionLines(summary) ==
    IF summary.outcome = "raised" THEN <<>>
    ELSE IF summary.ret.total_insights > 0
         THEN <<[insights_generated |-> summary.ret.total_insights]>>
              \o (IF summary.ret.strategies_used # <<>>
                  THEN <<[strategies_used |-> summary.ret.strategies_used]>>
                  ELSE <<>>)
         ELSE <<>>

\* generate_summary_report over self.analyses and the session log
generate_summary_report(history, log) ==
    IF history = <<>> THEN NoAnalysesYet
    ELSE [total_attempts |-> Len(history),
          successful |-> Cardinality({n \in DOMAIN history : history[n].success}),
          iterations |-> [n \in DOMAIN history |-> IterationLine(history[n])],
          session |-> SessionLines(get_session_summary(log))]

\* Analyst.generate_summary_report called by the driver
SummaryReport ==
    /\ last' = [op |-> "summary_report", outcome |-> "returned",
                ret |-> generate_summary_report(analyses, session_insights)]
    /\ UNCHANGED <<file, knowledge, session_insights, proposal_history, analyses, calls>>

\* Analyst.recommend_next_action called by the driver
Recommend ==
    /\ last' = [op |-> "recommend", outcome |-> "returned",
                ret |-> recommend_next_action(analyses)]
    /\ UNCHANGED <<file, knowledge, session_insights, proposal_history, analyses, calls>>

-----
(* Inputs                                                                  *)

\* generator responses: one longer than key_learning keeps, and the empty one
LongResponse == [src |-> <<"llm", "long">>, len |-> 250]
EmptyResponse == [src |-> <<"llm", "empty">>, len |-> 0]
\* generator errors
TimeoutError == [src |-> <<"error", "timeout">>, len |-> 7]
RateLimitError == [src |-> <<"error", "rate limit">>, len |-> 10]

GoalSearch ==
    <<"o","p","t","i","m","i","z","e"," ","t","h","i","s"," ",
      "s","e","a","r","c","h"," ","a","l","g","o","r","i","t","h","m">>
GoalData == <<"D","A","T","A","\t","p","l","o","t">>
GoalSort == <<"s","o","r","t">>

\* what datetime.now().isoformat() returns
Timestamps == {"2025-01-01T00:00:00"}

-----------------------------------------------------------------------------
(* SpecStore: the cognition base alone, driven through add_insight,        *)
(* get_relevant_strategies and process restarts                            *)

\* at most this many insights in a session log
MaxInsights == 2
\* at most this many learned patterns in the catalogue
MaxLearned == 2

InsightOf(goal, significance) ==
    [goal |-> goal, strategy |-> <<"Divide and Conquer">>, success |-> TRUE,
     key_learning |-> Prefix(LongResponse, KeyLearningLength),
     significance |-> significance]

\* the insights the driver submits: no significance, 0.7, 0.8 and 1.0
StoreInsights ==
    {[goal |-> GoalSort, strategy |-> <<>>, success |-> FALSE,
      key_learning |-> NoAnalysisAvailable],
     InsightOf(GoalSearch, 7), InsightOf(GoalSearch, 8), InsightOf(GoalData, 10)}

\* a catalogue written by an earlier session, and two hand-edited ones
LearnedCatalogue ==
    Put(SeedCatalogue, "learned_patterns",
        <<Stamp(InsightOf(GoalSort, 9), "2024-12-31T23:59:59")>>)
ReorderedCatalogue ==
    [strategies |-> <<PatternRecognition,
                      [name |-> "Untagged", description |-> "No applicable_to"],
                      DivideAndConquer>>]
EmptyCatalogue == <<>>

StoreFiles ==
    {AbsentFile, CorruptFile, JsonDocument(SeedCatalogue),
     JsonDocument(LearnedCatalogue), JsonDocument(ReorderedCatalogue),
     JsonDocument(EmptyCatalogue)}

StoreDescriptions == {GoalSearch, GoalData}

LearnedPatterns(catalogue) == Get(catalogue, "learned_patterns", <<>>)

Range(seq) == {seq[n] : n \in DOMAIN seq}

InitStore == file \in StoreFiles /\ Construct(file)

\* at most this many get_relevant_strategies calls by the driver per process
MaxRetrieves == 2

NextStore ==
    \/ Restart
    \/ \E insight \in StoreInsights, now \in Timestamps, outcome \in SaveOutcomes :
        /\ Len(session_insights) < MaxInsights
        /\ Promoted(insight) => Len(LearnedPatterns(knowledge)) < MaxLearned
        /\ AddInsight(insight, now, outcome)
    \/ \E problem_description \in StoreDescriptions :
        /\ calls.retrieve < MaxRetrieves
        /\ Retrieve(problem_description)

SpecStore == InitStore /\ [][NextStore]_vars

\* C2: add_insight always appends the (timestamped) insight to the session
\* log; with significance > 0.7 the "learned_patterns" category, created if
\* absent, grows by exactly that entry, nothing else in the catalogue changes
\* and exactly one save is attempted; otherwise the catalogue and the file are
\* unchanged and no save is attempted.
C2_AddInsightGate ==
    [][last'.op = "add_insight" =>
        LET insight == last'.args.insight
            logged == session_insights'[Len(session_insights')]
        IN  /\ last'.outcome = "returned"
            /\ session_insights' = Append(session_insights, logged)
            /\ \E now \in Timestamps : logged = Put(insight, "timestamp", now)
            /\ IF "significance" \in DOMAIN insight /\ insight.significance > 7
               THEN /\ "learned_patterns" \in DOMAIN knowledge'
                    /\ knowledge'.learned_patterns =
                            Append(LearnedPatterns(knowledge), logged)
                    /\ DOMAIN knowledge' = DOMAIN knowledge \cup {"learned_patterns"}
                    /\ \A c \in DOMAIN knowledge \ {"learned_patterns"} :
                            knowledge'[c] = knowledge[c]
                    /\ calls'.save = calls.save + 1
               ELSE /\ knowledge' = knowledge
                    /\ file' = file
                    /\ calls'.save = calls.save]_vars

\* C2 witness: a promoted insight created the category in a catalogue that had
\* none, and one save was attempted
C2_Witness ==
    /\ last.op = "add_insight"
    /\ last.args.insight.goal = GoalData
    /\ last.args.insight.significance = 10
    /\ Len(LearnedPatterns(knowledge)) = 1
    /\ "strategies" \notin DOMAIN knowledge
    /\ calls.save = 1
    /\ Len(session_insights) = 2

SeedNames(catalogue) == NamesOf(catalogue.strategies)

\* C6 as stated: "optimize this search algorithm" against the seed catalogue
\* retrieves exactly one strategy, "Divide and Conquer".
C6_OnlyDivideAndConquer ==
    (last.op = "retrieve" /\ last.args.problem_description = GoalSearch
        /\ knowledge = SeedCatalogue)
    => NamesOf(last.ret) = <<"Divide and Conquer">>

\* C6 amended: "optimize this search algorithm" against the seed catalogue
\* retrieves exactly two strategies, "Divide and Conquer" (tag "search") and
\* "Iterative Refinement" (tag "algorithms" contains the keyword "algorithm"),
\* in that order; "Pattern Recognition" is not in the result.
C6_SearchAndAlgorithms ==
    (last.op = "retrieve" /\ last.args.problem_description = GoalSearch
        /\ knowledge = SeedCatalogue)
    => /\ last.ret = <<DivideAndConquer, IterativeRefinement>>
       /\ \A i \in DOMAIN last.ret : last.ret[i].name # "Pattern Recognition"

\* C6 witness: that retrieval has run against the seed catalogue
C6_Witness ==
    /\ last.op = "retrieve"
    /\ last.args.problem_description = GoalSearch
    /\ knowledge = SeedCatalogue
    /\ Len(last.ret) = 2

\* C8: get_relevant_strategies changes neither the catalogue, the session log
\* nor the file, and called twice in a row with one description returns the
\* same sequence; add_insight, promoting or not, leaves the "strategies"
\* category and what every description retrieves as they were.
C8_RetrieveIsPure ==
    [][/\ last'.op = "retrieve" =>
            /\ knowledge' = knowledge
            /\ session_insights' = session_insights
            /\ file' = file
            /\ (last.op = "retrieve" /\ last.args = last'.args) => last'.ret = last.ret
       /\ last'.op = "add_insight" =>
            /\ DOMAIN knowledge \ {"learned_patterns"} = DOMAIN knowledge' \ {"learned_patterns"}
            /\ \A c \in {"strategies"} \cap DOMAIN knowledge : knowledge'[c] = knowledge[c]
            /\ knowledge' # knowledge =>
                    \A d \in StoreDescriptions :
                        get_relevant_strategies(knowledge', d) =
                        get_relevant_strategies(knowledge, d)]_vars

\* C8 witness: a second retrieval in a row, non-empty, in a session that has
\* promoted an insight
C8_Witness ==
    /\ last.op = "retrieve"
    /\ calls.retrieve = 2
    /\ calls.save >= 1
    /\ Len(LearnedPatterns(knowledge)) >= 1
    /\ last.ret # <<>>

\* C9: after load the call has returned; with the file absent, unreadable or
\* malformed the catalogue is the seed catalogue, whose strategies are "Divide
\* and Conquer", "Iterative Refinement", "Pattern Recognition" in that order and
\* which has no "learned_patterns"; with a well-formed file it is the file's
\* content.
C9_LoadNeverFails ==
    last.op = "load" =>
        /\ last.outcome = "returned"
        /\ file.state \in {"absent", "corrupt"} =>
            /\ DOMAIN knowledge = {"strategies", "common_errors", "optimization_techniques"}
            /\ Len(knowledge.strategies) = 3
            /\ knowledge.strategies[1].name = "Divide and Conquer"
            /\ knowledge.strategies[2].name = "Iterative Refinement"
            /\ knowledge.strategies[3].name = "Pattern Recognition"
            /\ knowledge = SeedCatalogue
        /\ file.state = "ok" => knowledge = file.content

\* C9 witness: a process started on a file that does not parse
C9_Witness ==
    /\ last.op = "load"
    /\ file.state = "corrupt"
    /\ knowledge = SeedCatalogue

\* C13: when add_insight promotes an insight and the write fails, add_insight
\* still returns normally, the insight is the last entry of the session log
\* and of the in-memory learned_patterns, and the file is left as it was.
C13_FailedWriteLeavesFile ==
    [][(last'.op = "add_insight" /\ calls'.save_failed = calls.save_failed + 1) =>
        LET logged == session_insights'[Len(session_insights')]
        IN  /\ last'.outcome = "returned"
            /\ session_insights' = Append(session_insights, logged)
            /\ \E now \in Timestamps :
                    logged = Put(last'.args.insight, "timestamp", now)
            /\ "learned_patterns" \in DOMAIN knowledge'
            /\ knowledge'.learned_patterns =
                    Append(LearnedPatterns(knowledge), logged)
            /\ file' = file]_vars

IsPrefix(s, t) == Len(s) <= Len(t) /\ \A n \in DOMAIN s : s[n] = t[n]

\* C16: right after every write that succeeded the file holds the whole
\* in-memory catalogue, so every insight promoted in this process, also one
\* whose own write failed, is in the file; and at all times the
\* learned_patterns of a readable file are a prefix of the in-memory ones.
C16_FileFollowsMemory ==
    /\ [](file.state = "ok" =>
            IsPrefix(LearnedPatterns(file.content), LearnedPatterns(knowledge)))
    /\ [][(/\ last'.op = "add_insight"
           /\ calls'.save = calls.save + 1
           /\ calls'.save_failed = calls.save_failed) =>
            /\ file' = [state |-> "ok", content |-> knowledge']
            /\ \A n \in DOMAIN session_insights' :
                    ("significance" \in DOMAIN session_insights'[n]
                        /\ session_insights'[n].significance > 7)
                    => session_insights'[n] \in Range(LearnedPatterns(file'.content))]_vars

\* C16 witness: two insights were promoted, the write of the first failed and
\* the write of the second put both into the file
C16_Witness ==
    /\ last.op = "add_insight"
    /\ calls.save = 2
    /\ calls.save_failed = 1
    /\ file = [state |-> "ok", content |-> knowledge]
    /\ Len(session_insights) = 2
    /\ LearnedPatterns(knowledge) = session_insights
    /\ session_insights[1] # session_insights[2]

-----
-----------------------------------------------------------------------------
(* SpecRetrieve: get_relevant_strategies over every short description and  *)
(* every short catalogue built from a pool of strategies                   *)

\* descriptions of at most this many characters
MaxDescLen == 4
\* catalogues of at most this many strategies
MaxStrategies == 2

DescAlphabet == {"a", "B", " ", "\t"}

RetrieveDescriptions ==
    UNION {[1..n -> DescAlphabet] : n \in 0..MaxDescLen}

\* one tag; two tags that can both match, one of them in upper case with a
\* blank inside; no applicable_to key; an empty applicable_to; an
\* upper-case tag
StrategyPool ==
    {[name |-> "S1", description |-> "one tag", applicable_to |-> << <<"a","b">> >>],
     [name |-> "S2", description |-> "two tags",
      applicable_to |-> << <<"b">>, <<"A"," ","b">> >>],
     [name |-> "S3", description |-> "no applicable_to"],
     [name |-> "S4", description |-> "no tag", applicable_to |-> <<>>],
     [name |-> "S5", description |-> "upper case", applicable_to |-> << <<"B","A">> >>]}

RetrieveCatalogues ==
    {EmptyCatalogue} \cup
    {[strategies |-> ss] : ss \in UNION {[1..n -> StrategyPool] : n \in 0..MaxStrategies}}

InitRetrieve ==
    /\ file \in {JsonDocument(c) : c \in RetrieveCatalogues}
    /\ Construct(file)

\* one retrieval per catalogue and description
NextRetrieve ==
    \E problem_description \in RetrieveDescriptions :
        /\ calls.retrieve = 0
        /\ Retrieve(problem_description)

SpecRetrieve == InitRetrieve /\ [][NextRetrieve]_vars

\* the description in lower case, letter by letter
LoweredDesc(d) == [i \in 1..Len(d) |-> IF d[i] = "B" THEN "b" ELSE d[i]]
LoweredTag(t) == [i \in 1..Len(t) |-> CASE t[i] = "A" -> "a" [] t[i] = "B" -> "b"
                                        [] OTHER -> t[i]]
Blank(c) == c = " " \/ c = "\t"

\* d[i..j] is a maximal run of non-blank characters of d
IsKeywordAt(d, i, j) ==
    /\ 1 <= i /\ i <= j /\ j <= Len(d)
    /\ \A k \in i..j : ~Blank(d[k])
    /\ i = 1 \/ Blank(d[i - 1])
    /\ j = Len(d) \/ Blank(d[j + 1])

\* the tag t contains the characters w somewhere
Occurs(w, t) == \E from \in 1..Len(t), to \in 1..Len(t) : SubSeq(t, from, to) = w

\* some tag of the strategy contains, case-insensitively, some keyword of d
Applies(strategy, d) ==
    /\ "applicable_to" \in DOMAIN strategy
    /\ \E n \in DOMAIN strategy.applicable_to, i \in 1..Len(d), j \in 1..Len(d) :
            /\ IsKeywordAt(d, i, j)
            /\ Occurs(SubSeq(LoweredDesc(d), i, j), LoweredTag(strategy.applicable_to[n]))

\* C7: get_relevant_strategies returns, without raising, exactly the
\* catalogue's strategies that have a tag containing a keyword of the
\* lowercased description, in catalogue order, each position once; with no
\* strategy matching or no keyword it returns the empty sequence.
C7_RetrieveIsTheMatchingSubsequence ==
    last.op = "retrieve" =>
        LET d == last.args.problem_description
            strategies == IF "strategies" \in DOMAIN knowledge
                          THEN knowledge.strategies ELSE <<>>
            Matching(strategy) == Applies(strategy, d)
        IN  /\ last.outcome = "returned"
            /\ last.ret = SelectSeq(strategies, Matching)
            /\ (\A i \in DOMAIN d : Blank(d[i])) => last.ret = <<>>
            /\ (\A n \in DOMAIN strategies : ~Applies(strategies[n], d)) => last.ret = <<>>

\* C7 witness: a two-strategy catalogue, the second strategy matched through
\* both of its tags by an upper-case keyword after a tab, and returned once
C7_Witness ==
    /\ last.op = "retrieve"
    /\ last.args.problem_description = <<"\t", "B">>
    /\ "strategies" \in DOMAIN knowledge
    /\ Len(knowledge.strategies) = 2
    /\ knowledge.strategies[1].name = "S4"
    /\ knowledge.strategies[2].name = "S2"
    /\ Len(last.ret) = 1
    /\ last.ret[1].name = "S2"

-----------------------------------------------------------------------------
(* SpecProposer: the researcher driven through propose_solution and        *)
(* refine_proposal                                                         *)

\* at most this many proposals in the history
MaxProposals == 3
\* at most this many generator queries per process
MaxQueries == 4

\* a hand-edited catalogue with a strategy that has no description
UndescribedCatalogue ==
    [strategies |-> <<[name |-> "Sorting", applicable_to |-> << <<"s","o","r","t">> >>]>>]

ProposerFiles == {AbsentFile, JsonDocument(UndescribedCatalogue)}
ProposerGoals == {GoalSearch, GoalSort}
Generations == {Returns(LongResponse), Raises(TimeoutError), Raises(RateLimitError)}
Feedbacks == {[success |-> FALSE, error |-> TimeoutError]}
PreviousAttempts == {<<>>, [error |-> TimeoutError]}

\* proposals no propose or refine call returned: one without a goal, one
\* without an iteration
GoallessProposal == [solution |-> LongResponse, iteration |-> 1]
UnnumberedProposal == [goal |-> GoalSort, solution |-> LongResponse]

InitProposer == file \in ProposerFiles /\ Construct(file)

NextProposer ==
    \/ \E goal \in ProposerGoals, previous_attempt \in PreviousAttempts, gen \in Generations :
        /\ Len(proposal_history) < MaxProposals
        /\ calls.query < MaxQueries
        /\ Propose(goal, previous_attempt, gen)
    \/ \E proposal \in Range(proposal_history) \cup {GoallessProposal, UnnumberedProposal},
          feedback \in Feedbacks, gen \in Generations :
        /\ Len(proposal_history) < MaxProposals
        /\ calls.query < MaxQueries
        /\ Refine(proposal, feedback, gen)

SpecProposer == InitProposer /\ [][NextProposer]_vars

\* C4: a propose or refine call whose generator call failed ends in that very
\* error, returns no proposal, and adds nothing to the proposal history.
C4_GeneratorFailurePropagates ==
    [][(/\ last'.op \in {"propose", "refine"}
        /\ calls'.query = calls.query + 1
        /\ ~last'.reply.ok)
       => /\ last'.outcome = "raised"
          /\ last'.error = last'.reply.error
          /\ "ret" \notin DOMAIN last'
          /\ proposal_history' = proposal_history]_vars

\* C4 witness: a refine of a recorded proposal ended in the generator's error
C4_Witness ==
    /\ last.op = "refine"
    /\ last.outcome = "raised"
    /\ "reply" \in DOMAIN last
    /\ last.error = RateLimitError
    /\ last.args.proposal \in Range(proposal_history)
    /\ Len(proposal_history) = 2

\* C5: a successful refine of a proposal that propose returned yields
\* iteration = that proposal's iteration + 1 and refined_from = that
\* proposal's iteration; a proposal returned by propose has no refined_from.
C5_RefineNumbersFromItsArgument ==
    /\ (/\ last.op = "refine"
        /\ last.outcome = "returned"
        /\ last.args.proposal \in Range(proposal_history)
        /\ "refined_from" \notin DOMAIN last.args.proposal)
       => /\ last.ret.iteration = last.args.proposal.iteration + 1
          /\ last.ret.refined_from = last.args.proposal.iteration
    /\ (last.op = "propose" /\ last.outcome = "returned")
       => "refined_from" \notin DOMAIN last.ret

\* C5 witness: the first proposal was refined after a second one was proposed
C5_Witness ==
    /\ last.op = "refine"
    /\ last.outcome = "returned"
    /\ Len(proposal_history) = 3
    /\ last.args.proposal = proposal_history[1]
    /\ "refined_from" \notin DOMAIN proposal_history[2]
    /\ last.ret.iteration = 2

\* every entry of the history h carries its position as iteration
Numbered(h) == \A k \in DOMAIN h : h[k].iteration = k

\* C15 as stated: after any successful propose and refine calls, refine being
\* applied to any proposal returned before, the k-th entry of the history has
\* iteration k, and no two entries share an iteration.
C15_IterationIsPosition ==
    /\ Numbered(proposal_history)
    /\ \A j, k \in DOMAIN proposal_history :
            proposal_history[j].iteration = proposal_history[k].iteration => j = k

\* C15, amended: an entry returned by propose has its position as iteration
\* and an entry returned by refine has refined_from + 1; a propose, or a refine
\* of the latest entry, keeps a history numbered 1..n numbered 1..n+1.
C15_NumberedWhileRefiningTheLatest ==
    /\ [](\A k \in DOMAIN proposal_history :
            IF "refined_from" \in DOMAIN proposal_history[k]
            THEN proposal_history[k].iteration = proposal_history[k].refined_from + 1
            ELSE proposal_history[k].iteration = k)
    /\ [][(/\ last'.op \in {"propose", "refine"}
           /\ last'.outcome = "returned"
           /\ proposal_history' # proposal_history
           /\ Numbered(proposal_history)
           /\ last'.op = "refine"
              => last'.args.proposal = proposal_history[Len(proposal_history)])
          => /\ Numbered(proposal_history')
             /\ last'.ret.iteration = Len(proposal_history) + 1]_vars

\* C15 witness: a proposal was refined, the refinement refined in turn, and
\* the three entries are numbered 1, 2, 3
C15_Witness ==
    /\ last.op = "refine"
    /\ last.outcome = "returned"
    /\ Len(proposal_history) = 3
    /\ last.args.proposal = proposal_history[2]
    /\ "refined_from" \in DOMAIN proposal_history[2]
    /\ proposal_history[3] = last.ret
    /\ Numbered(proposal_history)

\* C20: a propose or refine call that fails leaves the proposal history, the
\* catalogue, the session log, the file and the analyses as they were; one
\* that succeeds appends exactly the returned proposal and changes nothing
\* else, and propose numbers it by the history length, whatever failed before.
C20_FailedCallsChangeNothing ==
    [][last'.op \in {"propose", "refine"} =>
        /\ UNCHANGED <<knowledge, session_insights, file, analyses>>
        /\ IF last'.outcome = "raised"
           THEN proposal_history' = proposal_history
           ELSE /\ proposal_history' = Append(proposal_history, last'.ret)
                /\ last'.op = "propose"
                   => last'.ret.iteration = Len(proposal_history) + 1]_vars

\* C20 witness: the second proposal was returned after two calls had failed
\* in the generator
C20_Witness ==
    /\ last.op = "propose"
    /\ last.outcome = "returned"
    /\ last.ret.iteration = 2
    /\ proposal_history = <<proposal_history[1], last.ret>>
    /\ calls.query = 4

-----
-----
-----------------------------------------------------------------------------
(* SpecAnalyst: the analyst and its cognition base driven through          *)
(* analyze_results and get_session_summary                                 *)

\* at most this many analyze_results calls per process
MaxAnalyses == 2

\* a proposal as propose_solution returns it for GoalSearch, one as
\* refine_proposal returns it for a goal that retrieved no strategy, and one
\* without a goal
SearchProposal ==
    [goal |-> GoalSearch, solution |-> LongResponse,
     strategies_used |-> <<"Divide and Conquer", "Iterative Refinement">>,
     iteration |-> 1]
SortProposal ==
    [goal |-> GoalSort, solution |-> LongResponse, strategies_used |-> <<>>,
     iteration |-> 2, refined_from |-> 1]
AnalystProposals == {SearchProposal, SortProposal, GoallessProposal}

ProgramOutput == [src |-> <<"stdout">>, len |-> 600]
TestResults ==
    {[success |-> TRUE, output |-> ProgramOutput],
     [success |-> FALSE, error |-> TimeoutError]}
Validations ==
    {[meets_goal |-> TRUE, confidence |-> 9, notes |-> <<>>],
     [meets_goal |-> FALSE, confidence |-> 2, notes |-> <<>>],
     <<>>}
AnalystGenerations == {Returns(LongResponse), Returns(EmptyResponse), Raises(TimeoutError)}

InitAnalyst == file \in {AbsentFile} /\ Construct(file)

NextAnalyst ==
    \/ \E proposal \in AnalystProposals, test_result \in TestResults,
          validation \in Validations, gen \in AnalystGenerations,
          now \in Timestamps, outcome \in SaveOutcomes :
        /\ calls.analyze < MaxAnalyses
        /\ Analyze(proposal, test_result, validation, gen, now, outcome)
    \/ SessionSummary
    \/ SummaryReport

SpecAnalyst == InitAnalyst /\ [][NextAnalyst]_vars

\* C1 as stated: after analyze_results calls that each asked the generator,
\* which replied or failed, the total_insights that get_session_summary
\* returns is the number of those calls.
C1_OneInsightPerAnalyzeCall ==
    (last.op = "session_summary" /\ last.outcome = "returned"
        /\ calls.query = calls.analyze)
    => last.ret.total_insights = calls.analyze

\* C1 amended: the session log holds one insight per analyze_results call
\* whose generator call succeeded and none for any other call, and the
\* total_insights that get_session_summary returns is that number.
C1_OneInsightPerSuccessfulGeneration ==
    /\ Len(session_insights) = calls.reply
    /\ calls.reply <= calls.analyze
    /\ Len(session_insights) =
            Cardinality({n \in DOMAIN analyses : analyses[n].analysis.src[1] = "llm"})
    /\ (last.op = "session_summary" /\ last.outcome = "returned")
       => last.ret.total_insights = calls.reply

\* C1 witness: two analyze_results calls, one whose generator call failed and
\* one whose generator call succeeded, and a summary that counts one insight
C1_Witness ==
    /\ last.op = "session_summary"
    /\ last.outcome = "returned"
    /\ calls.analyze = 2
    /\ calls.query = 2
    /\ last.ret.total_insights = 1

WellFormed(args) ==
    /\ {"goal", "iteration"} \subseteq DOMAIN args.proposal
    /\ "success" \in DOMAIN args.test_result

\* C3: every analyze_results call on a well-formed proposal and test result
\* returns, generator failure or not, an analysis with the proposal's
\* iteration and the test result's success, and appends exactly that analysis
\* to the analysis history.
C3_AnalyzeNeverPropagates ==
    [][(/\ last'.op = "analyze"
        /\ calls'.analyze = calls.analyze + 1
        /\ WellFormed(last'.args))
       => /\ last'.outcome = "returned"
          /\ calls'.query = calls.query + 1
          /\ last'.ret.iteration = last'.args.proposal.iteration
          /\ last'.ret.success = last'.args.test_result.success
          /\ last'.ret.test_result = last'.args.test_result
          /\ last'.ret.validation = last'.args.validation
          /\ analyses' = Append(analyses, last'.ret)]_vars

\* C3 witness: the generator failed on a proposal of iteration 2 whose test
\* succeeded, and the history holds the degraded analysis
C3_Witness ==
    /\ last.op = "analyze"
    /\ last.outcome = "returned"
    /\ ~last.reply.ok
    /\ last.args.proposal = SortProposal
    /\ last.ret.success
    /\ last.ret.iteration = 2
    /\ Len(analyses) = 2
    /\ analyses[2] = last.ret
    /\ calls.analyze = 2

\* the distinct non-empty strategy references of the session log
StrategyReferences ==
    {Get(session_insights[n], "strategy", <<>>) : n \in DOMAIN session_insights}
        \ {<<>>}

\* C11: whenever the session log holds an insight, get_session_summary
\* returns normally and its strategies_used are the distinct non-empty
\* strategy references of the log, and the report over at least one analysis
\* shows the number of insights and, when there are any, those strategies.
C11_SummaryListsStrategies ==
    /\ (last.op = "session_summary" /\ session_insights # <<>>)
       => /\ last.outcome = "returned"
          /\ last.ret.total_insights = Len(session_insights)
          /\ Range(last.ret.strategies_used) = StrategyReferences
    /\ (last.op = "summary_report" /\ analyses # <<>> /\ session_insights # <<>>)
       => /\ \E n \in DOMAIN last.ret.session :
                /\ "insights_generated" \in DOMAIN last.ret.session[n]
                /\ last.ret.session[n].insights_generated = Len(session_insights)
          /\ StrategyReferences # {}
             => \E n \in DOMAIN last.ret.session :
                    /\ "strategies_used" \in DOMAIN last.ret.session[n]
                    /\ Range(last.ret.session[n].strategies_used) = StrategyReferences

\* C18: an analyze_results call on a proposal from which no insight can be
\* derived, such as one without a goal, still returns normally an analysis
\* of the test result, and that analysis is the last entry of the history.
C18_ExtractionFailureIsInvisible ==
    [][(last'.op = "analyze" /\ "goal" \notin DOMAIN last'.args.proposal
            /\ "success" \in DOMAIN last'.args.test_result)
       => /\ last'.outcome = "returned"
          /\ last'.ret.success = last'.args.test_result.success
          /\ analyses' = Append(analyses, last'.ret)]_vars

-----
-----
-----------------------------------------------------------------------------
(* SpecRecommend: the analyst driven through analyze_results and           *)
(* recommend_next_action over long histories                               *)

\* at most this many analyses in the history
MaxRecommendAnalyses == 5

RecommendValidations ==
    {[meets_goal |-> TRUE, confidence |-> 9, notes |-> <<>>],
     [meets_goal |-> FALSE, confidence |-> 2, notes |-> <<>>]}
RecommendGenerations == {Returns(LongResponse), Raises(TimeoutError)}

NextRecommend ==
    \/ \E test_result \in TestResults, validation \in RecommendValidations,
          gen \in RecommendGenerations, now \in Timestamps :
        /\ Len(analyses) < MaxRecommendAnalyses
        /\ Analyze(SearchProposal, test_result, validation, gen, now, "written")
    \/ Recommend

SpecRecommend == InitAnalyst /\ [][NextRecommend]_vars

-----------------------------------------------------------------------------
(* SpecPreview: analyze_results over program outputs of lengths around the *)
(* preview length                                                          *)

\* at most this many analyze_results calls per process
MaxPreviews == 2

\* the lengths of the program outputs: empty, short, and around 500
OutputLengths == {0, 1, 499, 500, 501, 600}
PreviewTestResults ==
    {[success |-> TRUE, output |-> [src |-> <<"stdout">>, len |-> n]] :
        n \in OutputLengths}
    \cup {[success |-> FALSE, error |-> TimeoutError]}
PreviewGenerations == {Returns(LongResponse), Raises(TimeoutError)}

NextPreview ==
    \E test_result \in PreviewTestResults, gen \in PreviewGenerations,
       now \in Timestamps :
        /\ calls.analyze < MaxPreviews
        /\ Analyze(SortProposal, test_result, <<>>, gen, now, "written")

SpecPreview == InitAnalyst /\ [][NextPreview]_vars

\* C12: the output preview in the request analyze_results sends to the
\* generator is the marker "None" when the test result has no output or an
\* empty one, the whole output when it has at most 500 characters, and its
\* first 500 characters followed by "..." when it has more.
C12_OutputPreview ==
    (last.op = "analyze" /\ "query" \in DOMAIN last)
    => LET test_result == last.args.test_result
           preview == last.query.output
       IN  IF "output" \notin DOMAIN test_result
           THEN preview = <<[src |-> <<"None">>, len |-> 4]>>
           ELSE IF test_result.output.len = 0
           THEN preview = <<[src |-> <<"None">>, len |-> 4]>>
           ELSE IF test_result.output.len <= 500
           THEN preview = <<test_result.output>>
           ELSE preview = <<[src |-> test_result.output.src, len |-> 500],
                            [src |-> <<"...">>, len |-> 3]>>

\* C12 witness: outputs of exactly 500 and of 600 characters were previewed,
\* the first whole and the second cut
C12_Witness ==
    /\ last.op = "analyze"
    /\ "query" \in DOMAIN last
    /\ last.args.test_result.success
    /\ last.args.test_result.output.len = 600
    /\ Len(last.query.output) = 2
    /\ last.query.output[1].len = 500
    /\ Len(analyses) = 2
    /\ analyses[1].test_result.success
    /\ analyses[1].test_result.output.len = 500

-----------------------------------------------------------------------------
(* Spec: the research loop, a researcher and an analyst over one cognition *)
(* base, driven through propose_solution, refine_proposal and              *)
(* analyze_results                                                         *)

\* at most this many proposals in the history
MaxLoopProposals == 2
\* at most this many analyze_results calls
MaxLoopAnalyses == 2
\* at most this many generator queries
MaxLoopQueries == 3

GoalFind == <<"s","e","a","r","c","h">>
LoopGoals == {GoalFind, GoalSort}
LoopFiles == {AbsentFile, JsonDocument(ReorderedCatalogue)}
LoopGenerations == {Returns(LongResponse), Raises(TimeoutError)}

Init == file \in LoopFiles /\ Construct(file)

\* refine_proposal takes an entry of the history, SearchProposal (a proposal
\* an earlier session returned from the seed catalogue) or a proposal
\* without a goal; analyze_results an entry of the history or the latter
Next ==
    \/ \E goal \in LoopGoals, gen \in LoopGenerations :
        /\ Len(proposal_history) < MaxLoopProposals
        /\ calls.query < MaxLoopQueries
        /\ Propose(goal, <<>>, gen)
    \/ \E proposal \in Range(proposal_history) \cup {SearchProposal, GoallessProposal},
          feedback \in Feedbacks, gen \in LoopGenerations :
        /\ Len(proposal_history) < MaxLoopProposals
        /\ calls.query < MaxLoopQueries
        /\ Refine(proposal, feedback, gen)
    \/ \E proposal \in Range(proposal_history) \cup {GoallessProposal},
          test_result \in TestResults, gen \in LoopGenerations,
          now \in Timestamps, outcome \in SaveOutcomes :
        /\ calls.analyze < MaxLoopAnalyses
        /\ calls.query < MaxLoopQueries
        /\ Analyze(proposal, test_result, <<>>, gen, now, outcome)

Spec == Init /\ [][Next]_vars

\* the arguments of a call hold what the prompt of the operation reads
Askable(call) ==
    CASE call.op = "propose" -> TRUE
      [] call.op = "refine" -> {"goal", "solution"} \subseteq DOMAIN call.args.proposal
      [] call.op = "analyze" -> /\ "goal" \in DOMAIN call.args.proposal
                                /\ "success" \in DOMAIN call.args.test_result

\* C14: no call of propose, refine or analyze asks the generator more than
\* once, and a call whose arguments hold what its prompt reads asks it
\* exactly once, whether the generator replies or fails; a failed query ends
\* a propose or refine in that one error and makes analyze append and return
\* one degraded analysis.
C14_OneQueryPerCall ==
    [][last'.op \in {"propose", "refine", "analyze"} =>
        /\ calls'.query \in {calls.query, calls.query + 1}
        /\ Askable(last') => calls'.query = calls.query + 1
        /\ calls'.query = calls.query + 1 <=> "reply" \in DOMAIN last'
        /\ ("reply" \in DOMAIN last' /\ ~last'.reply.ok)
           => IF last'.op = "analyze"
              THEN /\ last'.outcome = "returned"
                   /\ analyses' = Append(analyses, last'.ret)
                   /\ last'.ret.analysis =
                        FailureText(last'.reply.error, last'.args.test_result.success)
                   /\ proposal_history' = proposal_history
              ELSE /\ last'.outcome = "raised"
                   /\ last'.error = last'.reply.error
                   /\ proposal_history' = proposal_history
                   /\ analyses' = analyses]_vars

\* C14 witness: a propose, a refine and an analyze were called, three queries
\* were made in all, and the last one, by analyze, failed
C14_Witness ==
    /\ last.op = "analyze"
    /\ "reply" \in DOMAIN last
    /\ ~last.reply.ok
    /\ calls.query = 3
    /\ calls.analyze = 1
    /\ Len(analyses) = 1
    /\ Len(proposal_history) = 2
    /\ "refined_from" \in DOMAIN proposal_history[2]

\* C17: a refine that returns gives the strategies_used and the goal of the
\* proposal it was given, whatever the catalogue would retrieve for that goal
\* now, and no refine call changes the catalogue, the session log or the file.
C17_RefineKeepsStrategies ==
    [][last'.op = "refine" =>
        /\ UNCHANGED <<knowledge, session_insights, file>>
        /\ calls'.retrieve = calls.retrieve /\ calls'.save = calls.save
        /\ last'.outcome = "returned"
           => /\ last'.ret.goal = last'.args.proposal.goal
              /\ last'.ret.strategies_used = last'.args.proposal.strategies_used
              /\ proposal_history' = Append(proposal_history, last'.ret)]_vars

\* C17 witness: a proposal made from the seed catalogue was refined over a
\* catalogue that retrieves other strategies for its goal
C17_Witness ==
    /\ last.op = "refine"
    /\ last.outcome = "returned"
    /\ last.args.proposal = SearchProposal
    /\ last.ret.strategies_used = <<"Divide and Conquer", "Iterative Refinement">>
    /\ knowledge = ReorderedCatalogue
    /\ NamesOf(get_relevant_strategies(knowledge, last.ret.goal))
            # last.ret.strategies_used

\* C19: in every state reached through propose, refine and analyze, each
\* insight of the session log has significance 0.5 (a success) or 0.3 (a
\* failure), the catalogue is the one loaded from the file at start, the
\* file is the one found at start, and no save was attempted.
C19_NoInsightIsPromoted ==
    /\ \A n \in DOMAIN session_insights :
            session_insights[n].significance
                = IF session_insights[n].success THEN 5 ELSE 3
    /\ file \in LoopFiles
    /\ knowledge = LoadKnowledge(file)
    /\ "learned_patterns" \notin DOMAIN knowledge
    /\ calls.save = 0

\* C19 witness: a success and a failure were analysed and both insights are
\* in the session log
C19_Witness ==
    /\ last.op = "analyze"
    /\ Len(session_insights) = 2
    /\ session_insights[1].significance = 5
    /\ session_insights[2].significance = 3
    /\ proposal_history # <<>>
    /\ knowledge = SeedCatalogue

====
